---- MODULE Spec2Model ----
(***************************************************************************)
(* ThreadBundle of taskflow/utils/threading_utils.py: a list of            *)
(* [builder, thread, started] triples guarded by one non-reentrant lock.   *)
(* bind appends a triple, start walks the list forwards creating and       *)
(* starting threads, stop walks it backwards joining them.                 *)
(*                                                                         *)
(* Every statement of start/stop that calls foreign code (the factory, a   *)
(* callback, Thread.start, Thread.join) is one step of the calling thread; *)
(* foreign code either returns or raises, and a callback may first call    *)
(* bind, start or stop on the bundle itself.  History variables (log,      *)
(* hist, ret, the counters kept per thread instance) record what was       *)
(* called so that orderings and "at most once" statements can be written   *)
(* as invariants.                                                          *)
(***************************************************************************)
EXTENDS Integers, Sequences, FiniteSets, TLC

\* ------------------------------------------------------------------ bounds
\* Most slots a bundle is grown to.
MaxSlots == 2
\* Most start()/stop() calls made on the bundle.
MaxWalks == 3
\* Most exceptions raised by foreign code (factory, callbacks, start, join).
MaxFaults == 1

\* The threads that call bind/start/stop on the bundle.
Callers == {"c1", "c2"}

\* ------------------------------------------------------------------ values
\* Python's None: an absent callback, an absent thread, a free lock.
None == "None"
\* An argument that is callable, and one that is not (say, an int).
Fn == "fn"
NotCallable == "bad"

\* The thread slot of a triple holds None or a thread instance; instances
\* are numbered in the order the factories made them.
NoThread == 0

\* _ThreadBuilder: the namedtuple's field names, in order.
Fields == <<"thread_factory", "before_start", "after_start",
            "before_join", "after_join">>

_ThreadBuilder(f, bs, as, bj, aj) ==
    [thread_factory |-> f, before_start |-> bs, after_start |-> as,
     before_join |-> bj, after_join |-> aj]

\* _ThreadBuilder.callables: attribute name -> None allowed as a valid value.
callables ==
    << <<"thread_factory", FALSE>>, <<"before_start", TRUE>>,
       <<"after_start", TRUE>>, <<"before_join", TRUE>>,
       <<"after_join", TRUE>> >>

\* six.callable(cb)
callable(cb) == cb = Fn

\* bind checking its factory only.
CheckFactoryOnly(builder, k) == callable(builder.thread_factory)

\* The loop of bind over builder.callables, from entry k on: TRUE when it
\* runs to the end, FALSE when it raises ValueError.
RECURSIVE CheckCallables(_, _)
CheckCallables(builder, k) ==
    IF k > Len(callables) THEN TRUE
    ELSE LET cb == builder[callables[k][1]]
             none_allowed == callables[k][2]
         IN IF cb = None /\ none_allowed THEN CheckCallables(builder, k + 1)
            ELSE IF ~callable(cb) THEN FALSE
            ELSE CheckCallables(builder, k + 1)

\* The argument lists bind is called with: a bare factory, a factory with all
\* four callbacks, and the bad ones: no factory, a non-callable factory, each
\* callback non-callable in turn.
BindArgs ==
    { _ThreadBuilder(Fn, None, None, None, None),
      _ThreadBuilder(Fn, Fn, Fn, Fn, Fn),
      _ThreadBuilder(None, None, None, None, None),
      _ThreadBuilder(NotCallable, None, None, None, None),
      _ThreadBuilder(Fn, NotCallable, None, None, None),
      _ThreadBuilder(Fn, None, NotCallable, None, None),
      _ThreadBuilder(Fn, Fn, Fn, NotCallable, Fn),
      _ThreadBuilder(Fn, Fn, Fn, Fn, NotCallable) }

NoBuilder == _ThreadBuilder(None, None, None, None, None)

\* ------------------------------------------------------------------ state
VARIABLES
    slots,     \* self._threads: sequence of [builder, thread, started]
    lock,      \* self._lock: None, or the caller holding it
    pc,        \* where each caller is in bind/start/stop
    loc,       \* each caller's locals: builder, i, thread, started, count
    threads,   \* the thread instances made so far: state and call counters
    log,       \* calls made to foreign code by the walk holding the lock
    before,    \* slots as they were when that walk took the lock
    hist,      \* the last two completed bind/start/stop bodies, oldest first
    ret,       \* the call that ended last, and how: returned or raised
    walks,     \* start()/stop() calls made so far
    faults     \* exceptions raised by foreign code so far

vars == <<slots, lock, pc, loc, threads, log, before, hist, ret, walks, faults>>

\* The frame under a call the thread makes itself, not from inside a callback.
Top == [pc |-> "idle"]

\* it is the position of the loop's iterator, i the index it yielded.  outer is
\* the frame the call returns to: Top, or the callback that made the call,
\* kept as the pc and the locals of the start()/stop() that invoked it.
NoLocals == [builder |-> NoBuilder, it |-> 0, i |-> 0, thread |-> NoThread,
             started |-> FALSE, count |-> 0, outer |-> Top]

\* A thread instance as its factory returns it.  state follows Thread's own
\* life: new, running once start() succeeded, finished once its body ended.
\* starts, again and joins count the calls made on it: start(), start() on
\* an instance that had already been started, and join() that returned.
NewThread == [state |-> "new", starts |-> 0, again |-> 0, joins |-> 0]

\* ThreadBundle.__init__
Init ==
    /\ slots = << >>
    /\ lock = None
    /\ pc = [c \in Callers |-> "idle"]
    /\ loc = [c \in Callers |-> NoLocals]
    /\ threads = << >>
    /\ log = << >>
    /\ before = << >>
    /\ hist = << >>
    /\ ret = [op |-> None, outcome |-> None]
    /\ walks = 0
    /\ faults = 0

\* ------------------------------------------------------------------ helpers
\* The last two entries of hist with e appended.
Remember(e) == IF Len(hist) < 2 THEN Append(hist, e) ELSE <<hist[2], e>>

\* What a completed body leaves in hist.
Entry(op, outcome, count, lg, bf, af) ==
    [op |-> op, outcome |-> outcome, count |-> count,
     log |-> lg, before |-> bf, after |-> af]

\* Foreign code may raise while the fault budget lasts.
MayRaise == faults < MaxFaults

\* Entering the block without waiting for the lock.
AcquireWithoutWaiting(c) == lock' = c

\* A reentrant lock: its holder may take it again.
AcquireReentrant(c) == lock \in {None, c} /\ lock' = c

\* __enter__ of `with self._lock`: blocks until the lock is free.
Acquire(c) == lock = None /\ lock' = c

\* __exit__ of `with self._lock`
Release(c) == lock' = None

\* Python's truth value of the thread slot: None is false, a Thread is true.
Truthy(thread) == thread # NoThread

\* enumerate walking the list from its end.
enumerate_backwards(items) == [k \in 1..Len(items) |-> Len(items) - k + 1]

\* enumerate(self._threads): the indexes in the order the loop visits them.
enumerate(items) == [k \in 1..Len(items) |-> k]

\* misc.reverse_enumerate(self._threads): the indexes from the last to the
\* first.
reverse_enumerate(items) == [k \in 1..Len(items) |-> Len(items) - k + 1]

\* A call made to foreign code, as the log keeps it.
Event(ev, i, thread, ok) == [ev |-> ev, slot |-> i, thread |-> thread, ok |-> ok]

\* The call of c ends: control goes back to the frame that made it, the
\* thread's own code or the callback the call was made from.
Leave(c) ==
    LET outer == loc[c].outer
    IN /\ pc' = [pc EXCEPT ![c] = outer.pc]
       /\ loc' = [loc EXCEPT ![c] = IF outer = Top THEN NoLocals ELSE outer.loc]

\* An exception ending the call with the lock still held.
PropagateHoldingLock(c, op, lg, af) ==
    /\ lock' = lock
    /\ Leave(c)
    /\ ret' = [op |-> op, outcome |-> "raised"]
    /\ hist' = Remember(Entry(op, "raised", loc[c].count, lg, before, af))
    /\ faults' = IF faults < MaxFaults THEN faults + 1 ELSE faults

\* An exception leaves the `with` block of start/stop: the lock is released
\* and the call ends.  lg is the log and af the slots the call leaves.
Propagate(c, op, lg, af) ==
    /\ Release(c)
    /\ Leave(c)
    /\ ret' = [op |-> op, outcome |-> "raised"]
    /\ hist' = Remember(Entry(op, "raised", loc[c].count, lg, before, af))
    /\ faults' = IF faults < MaxFaults THEN faults + 1 ELSE faults

\* `return count` after the `with` block of start/stop.
Return(c, op) ==
    /\ Release(c)
    /\ Leave(c)
    /\ ret' = [op |-> op, outcome |-> "returned"]
    /\ hist' = Remember(Entry(op, "returned", loc[c].count, log, before, slots))

\* ------------------------------------------------------------------ bind
BindPcs == {"bind_check", "bind_lock", "bind_append"}

\* A caller calls bind(thread_factory, before_start, ..., after_join) and
\* builds the _ThreadBuilder.
BindEnter(c, args) ==
    /\ pc[c] = "idle"
    /\ pc' = [pc EXCEPT ![c] = "bind_check"]
    /\ loc' = [loc EXCEPT ![c] = [NoLocals EXCEPT !.builder = args]]
    /\ UNCHANGED <<slots, lock, threads, log, before, hist, ret, walks, faults>>

\* bind is called while the bundle, with the binds under way, has fewer than
\* MaxSlots slots, or with arguments it rejects.
BindCall(c, args) ==
    /\ \/ Len(slots) + Cardinality({d \in Callers : pc[d] \in BindPcs}) < MaxSlots
       \/ ~CheckCallables(args, 1)
    /\ BindEnter(c, args)

\* The validation loop: ValueError, or on to the `with self._lock`.
BindValidate(c) ==
    /\ pc[c] = "bind_check"
    /\ IF CheckCallables(loc[c].builder, 1)
       THEN /\ pc' = [pc EXCEPT ![c] = "bind_lock"]
            /\ UNCHANGED <<loc, ret>>
       ELSE /\ Leave(c)
            /\ ret' = [op |-> "bind", outcome |-> "raised"]
    /\ UNCHANGED <<slots, lock, threads, log, before, hist, walks, faults>>

BindAcquire(c) ==
    /\ pc[c] = "bind_lock"
    /\ Acquire(c)
    /\ pc' = [pc EXCEPT ![c] = "bind_append"]
    /\ UNCHANGED <<slots, loc, threads, log, before, hist, ret, walks, faults>>

\* bind calling the factory itself and appending the thread it made.
BindAppendEager(c) ==
    /\ pc[c] = "bind_append"
    /\ threads' = Append(threads, NewThread)
    /\ slots' = Append(slots, [builder |-> loc[c].builder,
                               thread |-> Len(threads) + 1, started |-> FALSE])
    /\ Release(c)
    /\ Leave(c)
    /\ ret' = [op |-> "bind", outcome |-> "returned"]
    /\ hist' = Remember(Entry("bind", "returned", 0, << >>, slots, slots'))
    /\ UNCHANGED <<log, before, walks, faults>>

\* self._threads.append([builder, None, False]) and the end of the `with`.
BindAppend(c) ==
    /\ pc[c] = "bind_append"
    /\ slots' = Append(slots, [builder |-> loc[c].builder,
                               thread |-> NoThread, started |-> FALSE])
    /\ Release(c)
    /\ Leave(c)
    /\ ret' = [op |-> "bind", outcome |-> "returned"]
    /\ hist' = Remember(Entry("bind", "returned", 0, << >>, slots, slots'))
    /\ UNCHANGED <<threads, log, before, walks, faults>>

\* ------------------------------------------------------------------ callbacks
\* The argument lists a callback calls bind with: a good one and a bad one.
NestedArgs ==
    { _ThreadBuilder(Fn, None, None, None, None),
      _ThreadBuilder(NotCallable, None, None, None, None) }

\* The calls a callback makes on the bundle, each with the pc it begins at:
\* the validation loop of bind, the `with self._lock` of start and of stop.
NestedCalls ==
    {[entry |-> "bind_check", args |-> args] : args \in NestedArgs}
        \cup {[entry |-> "start_lock", args |-> NoBuilder],
              [entry |-> "stop_lock", args |-> NoBuilder]}

\* A callback is handed the thread and runs in the thread that called start
\* or stop, inside the `with self._lock` block.  Before it returns or raises
\* it may call bind, start or stop on the bundle it was bound to: the walk is
\* kept as the frame the call returns to.
Reenter(c) ==
    \E call \in NestedCalls :
        /\ pc' = [pc EXCEPT ![c] = call.entry]
        /\ loc' = [loc EXCEPT ![c] =
                     [NoLocals EXCEPT !.builder = call.args,
                                      !.outer = [pc |-> pc[c], loc |-> loc[c]]]]
        /\ UNCHANGED <<slots, lock, threads, log, before, hist, ret, walks,
                       faults>>

\* ------------------------------------------------------------------ start
\* `count = 0`, then the caller waits for the lock.
StartCall(c) ==
    /\ pc[c] = "idle"
    /\ walks < MaxWalks
    /\ walks' = walks + 1
    /\ pc' = [pc EXCEPT ![c] = "start_lock"]
    /\ loc' = [loc EXCEPT ![c] = NoLocals]
    /\ UNCHANGED <<slots, lock, threads, log, before, hist, ret, faults>>

\* `with self._lock:` and `it = enumerate(self._threads)`.
StartAcquire(c) ==
    /\ pc[c] = "start_lock"
    /\ Acquire(c)
    /\ log' = << >>
    /\ before' = slots
    /\ loc' = [loc EXCEPT ![c].it = 1]
    /\ pc' = [pc EXCEPT ![c] = "start_iter"]
    /\ UNCHANGED <<slots, threads, hist, ret, walks, faults>>

\* start without its skip test.
StartSkipsNothing(thread, started) == FALSE

\* The skip test of start: `if thread and started: continue`.
StartSkips(thread, started) == Truthy(thread) /\ started

\* start calling the factory for every slot it does not skip.
AlwaysNeedsFactory(thread) == TRUE

\* `if not thread:` the factory is called.
NeedsFactory(thread) == ~Truthy(thread)

\* `for i, (builder, thread, started) in it:` with the skip test and the test
\* of `if not thread:`; when the iterator is exhausted, `return count`.
StartIter(c) ==
    /\ pc[c] = "start_iter"
    /\ IF loc[c].it > Len(enumerate(slots))
       THEN /\ Return(c, "start")
            /\ UNCHANGED <<slots, threads, log, before, walks, faults>>
       ELSE LET i == enumerate(slots)[loc[c].it]
                s == slots[i]
            IN /\ loc' = [loc EXCEPT ![c].it = @ + 1, ![c].i = i,
                                     ![c].builder = s.builder,
                                     ![c].thread = s.thread,
                                     ![c].started = s.started]
               /\ pc' = [pc EXCEPT ![c] =
                            IF StartSkips(s.thread, s.started) THEN "start_iter"
                            ELSE IF NeedsFactory(s.thread) THEN "start_factory"
                            ELSE "start_before"]
               /\ UNCHANGED <<slots, lock, threads, log, before, hist, ret,
                              walks, faults>>

\* self._threads[i][1] = thread = builder.thread_factory()
StartFactory(c) ==
    /\ pc[c] = "start_factory"
    /\ LET i == loc[c].i
           t == Len(threads) + 1
       IN \/ /\ threads' = Append(threads, NewThread)
             /\ slots' = [slots EXCEPT ![i].thread = t]
             /\ loc' = [loc EXCEPT ![c].thread = t]
             /\ log' = Append(log, Event("factory", i, t, TRUE))
             /\ pc' = [pc EXCEPT ![c] = "start_before"]
             /\ UNCHANGED <<lock, before, hist, ret, walks, faults>>
          \/ /\ MayRaise
             /\ log' = Append(log, Event("factory", i, NoThread, FALSE))
             /\ Propagate(c, "start", log', slots)
             /\ UNCHANGED <<slots, threads, before, walks>>

\* self._trigger_callback(builder.before_start, thread)
StartBefore(c) ==
    /\ pc[c] = "start_before"
    /\ LET cb == loc[c].builder.before_start
           i == loc[c].i
       IN \/ /\ cb = None
             /\ pc' = [pc EXCEPT ![c] = "start_thread"]
             /\ UNCHANGED <<slots, lock, loc, threads, log, before, hist, ret,
                            walks, faults>>
          \/ /\ cb # None /\ callable(cb)
             /\ log' = Append(log, Event("before_start", i, loc[c].thread, TRUE))
             /\ pc' = [pc EXCEPT ![c] = "start_thread"]
             /\ UNCHANGED <<slots, lock, loc, threads, before, hist, ret,
                            walks, faults>>
          \/ /\ cb # None /\ callable(cb)
             /\ Reenter(c)
          \/ /\ cb # None /\ (MayRaise \/ ~callable(cb))
             /\ log' = Append(log, Event("before_start", i, loc[c].thread, FALSE))
             /\ Propagate(c, "start", log', slots)
             /\ UNCHANGED <<slots, threads, before, walks>>

\* start leaving its count as it was.
StartCountForgotten(count) == count

\* `count += 1` of start, after thread.start() returned.
StartCount(count) == count + 1

\* thread.start() and `count += 1`.  Thread.start raises on an instance that
\* was started before, and may fail to create the OS thread.
StartThread(c) ==
    /\ pc[c] = "start_thread"
    /\ LET i == loc[c].i
           t == loc[c].thread
       IN \/ /\ threads[t].state = "new"
             /\ threads' = [threads EXCEPT ![t].state = "running",
                                           ![t].starts = @ + 1]
             /\ log' = Append(log, Event("start", i, t, TRUE))
             /\ loc' = [loc EXCEPT ![c].count = StartCount(@)]
             /\ pc' = [pc EXCEPT ![c] = "start_after"]
             /\ UNCHANGED <<slots, lock, before, hist, ret, walks, faults>>
          \/ /\ MayRaise \/ threads[t].state # "new"
             /\ threads' = [threads EXCEPT
                    ![t].starts = @ + 1,
                    ![t].again = IF threads[t].state # "new" THEN @ + 1 ELSE @]
             /\ log' = Append(log, Event("start", i, t, FALSE))
             /\ Propagate(c, "start", log', slots)
             /\ UNCHANGED <<slots, before, walks>>

\* start setting the flag only after an after_start that returned.
StartFlagUnlessRaised(i, raised) ==
    IF raised THEN slots ELSE [slots EXCEPT ![i].started = TRUE]

\* The finally block of start, run whether or not after_start raised:
\* self._threads[i][2] = started = True
StartFinally(i, raised) == [slots EXCEPT ![i].started = TRUE]

\* try: self._trigger_callback(builder.after_start, thread)
\* finally: self._threads[i][2] = started = True
StartAfter(c) ==
    /\ pc[c] = "start_after"
    /\ LET cb == loc[c].builder.after_start
           i == loc[c].i
       IN \/ /\ cb = None
             /\ slots' = StartFinally(i, FALSE)
             /\ pc' = [pc EXCEPT ![c] = "start_iter"]
             /\ loc' = [loc EXCEPT ![c].started = TRUE]
             /\ UNCHANGED <<lock, threads, log, before, hist, ret, walks,
                            faults>>
          \/ /\ cb # None /\ callable(cb)
             /\ slots' = StartFinally(i, FALSE)
             /\ log' = Append(log, Event("after_start", i, loc[c].thread, TRUE))
             /\ pc' = [pc EXCEPT ![c] = "start_iter"]
             /\ loc' = [loc EXCEPT ![c].started = TRUE]
             /\ UNCHANGED <<lock, threads, before, hist, ret, walks, faults>>
          \/ /\ cb # None /\ callable(cb)
             /\ Reenter(c)
          \/ /\ cb # None /\ (MayRaise \/ ~callable(cb))
             /\ slots' = StartFinally(i, TRUE)
             /\ log' = Append(log, Event("after_start", i, loc[c].thread, FALSE))
             /\ Propagate(c, "start", log', slots')
             /\ UNCHANGED <<threads, before, walks>>

\* ------------------------------------------------------------------ stop
\* `count = 0`, then the caller waits for the lock.
StopCall(c) ==
    /\ pc[c] = "idle"
    /\ walks < MaxWalks
    /\ walks' = walks + 1
    /\ pc' = [pc EXCEPT ![c] = "stop_lock"]
    /\ loc' = [loc EXCEPT ![c] = NoLocals]
    /\ UNCHANGED <<slots, lock, threads, log, before, hist, ret, faults>>

\* `with self._lock:` and `it = misc.reverse_enumerate(self._threads)`.
StopAcquire(c) ==
    /\ pc[c] = "stop_lock"
    /\ Acquire(c)
    /\ log' = << >>
    /\ before' = slots
    /\ loc' = [loc EXCEPT ![c].it = 1]
    /\ pc' = [pc EXCEPT ![c] = "stop_iter"]
    /\ UNCHANGED <<slots, threads, hist, ret, walks, faults>>

\* The skip test of stop: `if not thread or not started: continue`.
StopSkips(thread, started) == ~Truthy(thread) \/ ~started

\* `for i, (builder, thread, started) in it:` with the skip test; when the
\* iterator is exhausted, `return count`.
StopIter(c) ==
    /\ pc[c] = "stop_iter"
    /\ IF loc[c].it > Len(reverse_enumerate(slots))
       THEN /\ Return(c, "stop")
            /\ UNCHANGED <<slots, threads, log, before, walks, faults>>
       ELSE LET i == reverse_enumerate(slots)[loc[c].it]
                s == slots[i]
            IN /\ loc' = [loc EXCEPT ![c].it = @ + 1, ![c].i = i,
                                     ![c].builder = s.builder,
                                     ![c].thread = s.thread,
                                     ![c].started = s.started]
               /\ pc' = [pc EXCEPT ![c] =
                            IF StopSkips(s.thread, s.started) THEN "stop_iter"
                            ELSE "stop_before"]
               /\ UNCHANGED <<slots, lock, threads, log, before, hist, ret,
                              walks, faults>>

\* self._trigger_callback(builder.before_join, thread)
StopBefore(c) ==
    /\ pc[c] = "stop_before"
    /\ LET cb == loc[c].builder.before_join
           i == loc[c].i
       IN \/ /\ cb = None
             /\ pc' = [pc EXCEPT ![c] = "stop_join"]
             /\ UNCHANGED <<slots, lock, loc, threads, log, before, hist, ret,
                            walks, faults>>
          \/ /\ cb # None /\ callable(cb)
             /\ log' = Append(log, Event("before_join", i, loc[c].thread, TRUE))
             /\ pc' = [pc EXCEPT ![c] = "stop_join"]
             /\ UNCHANGED <<slots, lock, loc, threads, before, hist, ret,
                            walks, faults>>
          \/ /\ cb # None /\ callable(cb)
             /\ Reenter(c)
          \/ /\ cb # None /\ (MayRaise \/ ~callable(cb))
             /\ log' = Append(log, Event("before_join", i, loc[c].thread, FALSE))
             /\ Propagate(c, "stop", log', slots)
             /\ UNCHANGED <<slots, threads, before, walks>>

\* stop leaving its count as it was.
StopCountForgotten(count) == count

\* `count += 1` of stop, after thread.join() returned.
StopCount(count) == count + 1

\* join() returning at once for any thread that was started, as with a
\* timeout of zero.
JoinedWithoutWaiting(t) == threads[t].state # "new"

\* thread.join() returns once the body of the thread has ended.
Joined(t) == threads[t].state = "finished"

\* stop with thread.join() inside its try block: the finally block resets the
\* slot when join raises.
StopJoinResetting(c) ==
    /\ pc[c] = "stop_join"
    /\ LET i == loc[c].i
           t == loc[c].thread
       IN \/ /\ Joined(t)
             /\ threads' = [threads EXCEPT ![t].joins = @ + 1]
             /\ log' = Append(log, Event("join", i, t, TRUE))
             /\ loc' = [loc EXCEPT ![c].count = StopCount(@)]
             /\ pc' = [pc EXCEPT ![c] = "stop_after"]
             /\ UNCHANGED <<slots, lock, before, hist, ret, walks, faults>>
          \/ /\ MayRaise \/ threads[t].state = "new"
             /\ slots' = [slots EXCEPT ![i].thread = NoThread,
                                       ![i].started = FALSE]
             /\ log' = Append(log, Event("join", i, t, FALSE))
             /\ Propagate(c, "stop", log', slots')
             /\ UNCHANGED <<threads, before, walks>>

\* thread.join() and `count += 1`.  Thread.join waits until the thread's body
\* has finished; it raises on a thread that was never started, and the wait
\* can be broken off by an exception.
StopJoin(c) ==
    /\ pc[c] = "stop_join"
    /\ LET i == loc[c].i
           t == loc[c].thread
       IN \/ /\ Joined(t)
             /\ threads' = [threads EXCEPT ![t].joins = @ + 1]
             /\ log' = Append(log, Event("join", i, t, TRUE))
             /\ loc' = [loc EXCEPT ![c].count = StopCount(@)]
             /\ pc' = [pc EXCEPT ![c] = "stop_after"]
             /\ UNCHANGED <<slots, lock, before, hist, ret, walks, faults>>
          \/ /\ MayRaise \/ threads[t].state = "new"
             /\ log' = Append(log, Event("join", i, t, FALSE))
             /\ Propagate(c, "stop", log', slots)
             /\ UNCHANGED <<slots, threads, before, walks>>

\* stop resetting the slot only after an after_join that returned.
StopResetUnlessRaised(i, raised) ==
    IF raised THEN slots
    ELSE [slots EXCEPT ![i].thread = NoThread, ![i].started = FALSE]

\* stop taking the joined slot out of the list.
StopDropsSlot(i, raised) ==
    SubSeq(slots, 1, i - 1) \o SubSeq(slots, i + 1, Len(slots))

\* stop clearing the thread of the joined slot but leaving its flag set.
StopKeepsFlag(i, raised) == [slots EXCEPT ![i].thread = NoThread]

\* stop clearing the started flag but keeping the joined thread in the slot.
StopKeepsThread(i, raised) == [slots EXCEPT ![i].started = FALSE]

\* The finally block of stop, run whether or not after_join raised:
\* self._threads[i][1] = thread = None; self._threads[i][2] = started = False
StopFinally(i, raised) ==
    [slots EXCEPT ![i].thread = NoThread, ![i].started = FALSE]

\* try: self._trigger_callback(builder.after_join, thread)
\* finally: self._threads[i][1] = thread = None
\*          self._threads[i][2] = started = False
StopAfter(c) ==
    /\ pc[c] = "stop_after"
    /\ LET cb == loc[c].builder.after_join
           i == loc[c].i
       IN \/ /\ cb = None
             /\ slots' = StopFinally(i, FALSE)
             /\ pc' = [pc EXCEPT ![c] = "stop_iter"]
             /\ loc' = [loc EXCEPT ![c].thread = NoThread,
                                   ![c].started = FALSE]
             /\ UNCHANGED <<lock, threads, log, before, hist, ret, walks,
                            faults>>
          \/ /\ cb # None /\ callable(cb)
             /\ slots' = StopFinally(i, FALSE)
             /\ log' = Append(log, Event("after_join", i, loc[c].thread, TRUE))
             /\ pc' = [pc EXCEPT ![c] = "stop_iter"]
             /\ loc' = [loc EXCEPT ![c].thread = NoThread,
                                   ![c].started = FALSE]
             /\ UNCHANGED <<lock, threads, before, hist, ret, walks, faults>>
          \/ /\ cb # None /\ callable(cb)
             /\ Reenter(c)
          \/ /\ cb # None /\ (MayRaise \/ ~callable(cb))
             /\ slots' = StopFinally(i, TRUE)
             /\ log' = Append(log, Event("after_join", i, loc[c].thread, FALSE))
             /\ Propagate(c, "stop", log', slots')
             /\ UNCHANGED <<threads, before, walks>>

\* ------------------------------------------------------------------ len
\* ThreadBundle.__len__: the number of slots, read without the lock.
__len__ == Len(slots)

\* ------------------------------------------------------------------ workers
\* The body of a started thread runs to its end.  Nothing in the bundle looks
\* at a thread between its start() and its join() (is_alive is not used), so
\* the end of the body is taken when a caller waits for it in join().
WorkerFinish(t) ==
    /\ threads[t].state = "running"
    /\ \E c \in Callers : pc[c] = "stop_join" /\ loc[c].thread = t
    /\ threads' = [threads EXCEPT ![t].state = "finished"]
    /\ UNCHANGED <<slots, lock, pc, loc, log, before, hist, ret, walks, faults>>

\* ------------------------------------------------------------------ system
\* One thread uses the bundle; the threads it starts run beside it.
Main == "c1"

\* The callbacks do as bind's docstring asks: they return or raise, and none
\* of them calls bind, start or stop on the bundle.
Behaved == \A c \in Callers : loc'[c].outer = Top

Next ==
    \/ \E args \in BindArgs : BindCall(Main, args)
    \/ BindValidate(Main)
    \/ BindAcquire(Main)
    \/ BindAppend(Main)
    \/ StartCall(Main)
    \/ StartAcquire(Main)
    \/ StartIter(Main)
    \/ StartFactory(Main)
    \/ StartBefore(Main) /\ Behaved
    \/ StartThread(Main)
    \/ StartAfter(Main) /\ Behaved
    \/ StopCall(Main)
    \/ StopAcquire(Main)
    \/ StopIter(Main)
    \/ StopBefore(Main) /\ Behaved
    \/ StopJoin(Main)
    \/ StopAfter(Main) /\ Behaved
    \/ \E t \in 1..Len(threads) : WorkerFinish(t)

Spec == Init /\ [][Next]_vars

\* Several threads use the bundle at once, within a smaller budget of calls
\* and exceptions and with fewer argument lists: the two good ones and one
\* bad one.
ConcArgs ==
    { _ThreadBuilder(Fn, None, None, None, None),
      _ThreadBuilder(Fn, Fn, Fn, Fn, Fn),
      _ThreadBuilder(Fn, Fn, NotCallable, None, None) }

ConcWalks == 2
ConcFaults == 1

Within == walks' <= ConcWalks /\ faults' <= ConcFaults

ConcNext ==
    \/ \E c \in Callers : \E args \in ConcArgs : BindCall(c, args)
    \/ \E c \in Callers : BindValidate(c)
    \/ \E c \in Callers : BindAcquire(c)
    \/ \E c \in Callers : BindAppend(c)
    \/ \E c \in Callers : StartCall(c) /\ Within
    \/ \E c \in Callers : StartAcquire(c)
    \/ \E c \in Callers : StartIter(c)
    \/ \E c \in Callers : StartFactory(c) /\ Within
    \/ \E c \in Callers : StartBefore(c) /\ Within
    \/ \E c \in Callers : StartThread(c) /\ Within
    \/ \E c \in Callers : StartAfter(c) /\ Within
    \/ \E c \in Callers : StopCall(c) /\ Within
    \/ \E c \in Callers : StopAcquire(c)
    \/ \E c \in Callers : StopIter(c)
    \/ \E c \in Callers : StopBefore(c) /\ Within
    \/ \E c \in Callers : StopJoin(c) /\ Within
    \/ \E c \in Callers : StopAfter(c) /\ Within
    \/ \E t \in 1..Len(threads) : WorkerFinish(t)

ConcSpec == Init /\ [][ConcNext]_vars

\* One thread uses a bundle of more slots, all bound with good arguments,
\* for fewer calls of start() and stop().
WideSlots == 3
WideWalks == 2
WideFaults == 1

GoodArgs ==
    { _ThreadBuilder(Fn, None, None, None, None),
      _ThreadBuilder(Fn, Fn, Fn, Fn, Fn) }

InWide == walks' <= WideWalks /\ faults' <= WideFaults /\ Behaved

WideNext ==
    \/ \E args \in GoodArgs : Len(slots) < WideSlots /\ BindEnter(Main, args)
    \/ BindValidate(Main)
    \/ BindAcquire(Main)
    \/ BindAppend(Main)
    \/ StartCall(Main) /\ InWide
    \/ StartAcquire(Main)
    \/ StartIter(Main)
    \/ StartFactory(Main) /\ InWide
    \/ StartBefore(Main) /\ InWide
    \/ StartThread(Main) /\ InWide
    \/ StartAfter(Main) /\ InWide
    \/ StopCall(Main) /\ InWide
    \/ StopAcquire(Main)
    \/ StopIter(Main)
    \/ StopBefore(Main) /\ InWide
    \/ StopJoin(Main) /\ InWide
    \/ StopAfter(Main) /\ InWide
    \/ \E t \in 1..Len(threads) : WorkerFinish(t)

WideSpec == Init /\ [][WideNext]_vars

\* The next statement of the call a caller is in.
Step(c) ==
    \/ BindValidate(c) \/ BindAcquire(c) \/ BindAppend(c)
    \/ StartAcquire(c) \/ StartIter(c) \/ StartFactory(c) \/ StartBefore(c)
    \/ StartThread(c) \/ StartAfter(c)
    \/ StopAcquire(c) \/ StopIter(c) \/ StopBefore(c) \/ StopJoin(c)
    \/ StopAfter(c)

\* The body of some started thread ends.
Finish == \E t \in 1..Len(threads) : WorkerFinish(t)

\* Two threads use a bundle bound with good arguments, whose callbacks
\* return or raise, and each of the two keeps running: a caller whose next
\* statement can be executed, the foreign code it calls returning, executes
\* it in the end.  That foreign code raises is possible and never required,
\* and nothing is assumed of the threads the bundle started.
LiveSlots == 2
LiveWalks == 2
LiveFaults == 0

InLive == walks' <= LiveWalks /\ faults' <= LiveFaults /\ Behaved

LiveNext ==
    \/ \E c \in Callers : \E args \in GoodArgs :
          /\ Len(slots) + Cardinality({d \in Callers : pc[d] \in BindPcs})
                < LiveSlots
          /\ BindEnter(c, args)
    \/ \E c \in Callers : BindValidate(c)
    \/ \E c \in Callers : BindAcquire(c)
    \/ \E c \in Callers : BindAppend(c)
    \/ \E c \in Callers : StartCall(c) /\ InLive
    \/ \E c \in Callers : StartAcquire(c)
    \/ \E c \in Callers : StartIter(c)
    \/ \E c \in Callers : StartFactory(c) /\ InLive
    \/ \E c \in Callers : StartBefore(c) /\ InLive
    \/ \E c \in Callers : StartThread(c) /\ InLive
    \/ \E c \in Callers : StartAfter(c) /\ InLive
    \/ \E c \in Callers : StopCall(c) /\ InLive
    \/ \E c \in Callers : StopAcquire(c)
    \/ \E c \in Callers : StopIter(c)
    \/ \E c \in Callers : StopBefore(c) /\ InLive
    \/ \E c \in Callers : StopJoin(c) /\ InLive
    \/ \E c \in Callers : StopAfter(c) /\ InLive
    \/ \E t \in 1..Len(threads) : WorkerFinish(t)

Runs(c) == Step(c) /\ Behaved /\ faults' = faults

LiveSpec == Init /\ [][LiveNext]_vars /\ \A c \in Callers : WF_vars(Runs(c))

\* ------------------------------------------------------------------ claims
\* What the statements below say about a completed call is read off hist:
\* hist[k].before and .after are the slots when the call took and released
\* the lock, .log the calls it made to foreign code, in order.

\* The entries of a log that are calls of kind ev.
Sel(lg, ev) == SelectSeq(lg, LAMBDA e : e.ev = ev)

\* The slot indexes of the entries of a log, in order.
SlotsOf(lg) == [k \in 1..Len(lg) |-> lg[k].slot]

\* How often a log calls ev for slot i.
Times(lg, ev, i) == Cardinality({k \in 1..Len(lg) : lg[k].ev = ev /\ lg[k].slot = i})

\* A slot that is running: it has a thread and its flag is set.
Running(s) == s.thread # NoThread /\ s.started

\* The indexes of the slots of bf that are not running, in bind order.
Idle(bf) == SelectSeq([k \in 1..Len(bf) |-> k], LAMBDA i : ~Running(bf[i]))

\* The indexes of the slots of bf that are running, last bound first.
Busy(bf) ==
    SelectSeq([k \in 1..Len(bf) |-> Len(bf) - k + 1], LAMBDA i : Running(bf[i]))

IsCall(e, op, outcome) == e.op = op /\ e.outcome = outcome

\* C1: a start() that returns calls each slot's factory at most once and
\* starts each slot's thread at most once, and it starts the slots that were
\* not running in the order they were bound (after binds only: all slots, in
\* bind order).
C1_StartOnceInBindOrder ==
    \A k \in 1..Len(hist) :
        LET e == hist[k]
        IN IsCall(e, "start", "returned") =>
              /\ \A i \in 1..Len(e.before) :
                    /\ Times(e.log, "factory", i) <= 1
                    /\ Times(e.log, "start", i) <= 1
              /\ SlotsOf(Sel(e.log, "start")) = Idle(e.before)
              /\ walks = 1 => SlotsOf(Sel(e.log, "start"))
                                 = [i \in 1..Len(e.before) |-> i]

\* A first start() has returned after starting two slots.
C1_Witness ==
    /\ walks = 1
    /\ \E k \in 1..Len(hist) :
          /\ IsCall(hist[k], "start", "returned")
          /\ Len(hist[k].before) = 2
          /\ hist[k].count = 2

\* C2: after a start() that returned and then a stop() that returned, every
\* slot has no thread and started = FALSE, and stop joined the slots from the
\* last bound to the first.
C2_FullCycleResets ==
    (/\ Len(hist) = 2
     /\ IsCall(hist[1], "start", "returned")
     /\ IsCall(hist[2], "stop", "returned")) =>
        LET e == hist[2]
        IN /\ \A i \in 1..Len(e.after) :
                 e.after[i].thread = NoThread /\ e.after[i].started = FALSE
           /\ SlotsOf(Sel(e.log, "join"))
                 = [k \in 1..Len(e.before) |-> Len(e.before) - k + 1]

\* A start() then a stop() have both returned on a bundle of two slots.
C2_Witness ==
    /\ Len(hist) = 2
    /\ IsCall(hist[1], "start", "returned")
    /\ IsCall(hist[2], "stop", "returned")
    /\ hist[2].count = 2

\* What the second of two like calls in a row does: it returns 0, calls no
\* foreign code and leaves the slots alone.
NoWork(e) ==
    /\ e.outcome = "returned"
    /\ e.count = 0
    /\ e.log = << >>
    /\ e.after = e.before

TwiceInARow(op) ==
    /\ Len(hist) = 2
    /\ IsCall(hist[1], op, "returned")
    /\ hist[2].op = op

\* C3 as stated: of two start() (or two stop()) in a row the first returns a
\* non-zero count and the second returns 0 and performs no work.
C3_Original ==
    \A op \in {"start", "stop"} :
        TwiceInARow(op) => hist[1].count # 0 /\ NoWork(hist[2])

\* C3: of two start() in a row, the first returning, the second returns 0 and
\* performs no work, and the first returned a non-zero count exactly when
\* some slot was not running when it took the lock (none is on an empty or a
\* fully started bundle); likewise for stop() and the slots that were running.
C3_SecondCallIdle ==
    /\ TwiceInARow("start") =>
          /\ NoWork(hist[2])
          /\ hist[1].count # 0 <=> Idle(hist[1].before) # << >>
    /\ TwiceInARow("stop") =>
          /\ NoWork(hist[2])
          /\ hist[1].count # 0 <=> Busy(hist[1].before) # << >>

\* start() returned 2 and the start() right after it has completed.
C3_Witness == TwiceInARow("start") /\ hist[1].count = 2


\* The thread instances a log joined.
JoinedBy(lg) == {lg[k].thread : k \in {n \in 1..Len(lg) : lg[n].ev = "join" /\ lg[n].ok}}

\* The log has the call ev for slot i on thread t, and it returned.
Called(lg, ev, i, t) ==
    \E k \in 1..Len(lg) : lg[k] = Event(ev, i, t, TRUE)

\* The thread the factory made for slot i in this log.
MadeFor(lg, i) ==
    LET k == CHOOSE n \in 1..Len(lg) : lg[n].ev = "factory" /\ lg[n].slot = i
    IN lg[k].thread

\* A stop() that returned, then a start() that returned.
Restarted ==
    /\ Len(hist) = 2
    /\ IsCall(hist[1], "stop", "returned")
    /\ IsCall(hist[2], "start", "returned")

\* start() is never called on an instance that was joined.
JoinedNeverStarted ==
    \A k \in 1..Len(log) :
        log[k].ev = "start" => threads[log[k].thread].joins = 0

\* C4 as stated: after a stop() that completed, the next start() calls every
\* slot's factory again and starts the new instance, and no joined instance
\* is started again.
C4_Original ==
    /\ JoinedNeverStarted
    /\ Restarted =>
          \A i \in 1..Len(hist[2].before) :
              /\ Times(hist[2].log, "factory", i) = 1
              /\ Called(hist[2].log, "start", i, MadeFor(hist[2].log, i))
              /\ MadeFor(hist[2].log, i) \notin JoinedBy(hist[1].log)

\* C4: after a stop() that completed, the next start() calls the factory
\* again for every slot whose thread is absent (every slot stop() joined
\* among them) and starts the new instance; a slot whose thread an earlier
\* failed start() made but never started keeps that instance, which is
\* started without a factory call; no joined instance is started again.
C4_RestartMakesNewThread ==
    /\ JoinedNeverStarted
    /\ Restarted =>
          \A i \in 1..Len(hist[2].before) :
              LET old == hist[2].before[i].thread
              IN IF old = NoThread
                 THEN /\ Times(hist[2].log, "factory", i) = 1
                      /\ Called(hist[2].log, "start", i, MadeFor(hist[2].log, i))
                      /\ MadeFor(hist[2].log, i) \notin JoinedBy(hist[1].log)
                 ELSE /\ Times(hist[2].log, "factory", i) = 0
                      /\ Called(hist[2].log, "start", i, old)
                      /\ old \notin JoinedBy(hist[1].log)

\* stop() joined two threads and the start() after it started two others.
C4_Witness ==
    /\ Restarted
    /\ hist[1].count = 2
    /\ hist[2].count = 2
    /\ Cardinality(JoinedBy(hist[1].log)) = 2

Last(lg) == lg[Len(lg)]

\* The call op ended in an exception raised by its call of ev, the last entry
\* of its log.
RaisedIn(e, op, ev) ==
    /\ IsCall(e, op, "raised")
    /\ e.log # << >>
    /\ Last(e.log).ev = ev
    /\ ~Last(e.log).ok

\* C5: when after_start raises in start(), the slot's started flag is true
\* once start() has raised, and a stop() that follows joins that thread.
C5_AfterStartRaiseKeepsFlag ==
    /\ \A k \in 1..Len(hist) :
          RaisedIn(hist[k], "start", "after_start") =>
              LET f == Last(hist[k].log)
              IN /\ hist[k].after[f.slot].started
                 /\ hist[k].after[f.slot].thread = f.thread
    /\ (/\ Len(hist) = 2
        /\ RaisedIn(hist[1], "start", "after_start")
        /\ IsCall(hist[2], "stop", "returned")) =>
           LET f == Last(hist[1].log)
           IN Called(hist[2].log, "join", f.slot, f.thread)

\* after_start raised in start() and the stop() after it has returned.
C5_Witness ==
    /\ Len(hist) = 2
    /\ RaisedIn(hist[1], "start", "after_start")
    /\ IsCall(hist[2], "stop", "returned")
    /\ hist[2].count >= 1

\* C6: when after_join raises in stop(), the slot is back at no thread and
\* started = FALSE once stop() has raised, and the joined thread is in no
\* slot of the bundle.
C6_AfterJoinRaiseResets ==
    \A k \in 1..Len(hist) :
        RaisedIn(hist[k], "stop", "after_join") =>
            LET f == Last(hist[k].log)
                af == hist[k].after
            IN /\ af[f.slot].thread = NoThread
               /\ ~af[f.slot].started
               /\ \A i \in 1..Len(af) : af[i].thread # f.thread

\* after_join raised in a stop().
C6_Witness ==
    \E k \in 1..Len(hist) :
        /\ RaisedIn(hist[k], "stop", "after_join")
        /\ threads[Last(hist[k].log).thread].joins = 1

\* One registration, no thread yet, and start() raised out of before_start;
\* then start() was called again.
BeforeStartRaised ==
    /\ hist # << >>
    /\ RaisedIn(hist[1], "start", "before_start")
    /\ Len(hist[1].before) = 1
    /\ hist[1].before[1].thread = NoThread

FactoryRanNotStarted ==
    /\ Times(hist[1].log, "factory", 1) = 1
    /\ hist[1].after[1].thread = MadeFor(hist[1].log, 1)
    /\ hist[1].after[1].thread # NoThread
    /\ ~hist[1].after[1].started

Retried == Len(hist) = 2 /\ hist[2].op = "start"

\* C7 as stated: the exception propagates, the thread was made and started
\* stays false, and the next start() calls the factory afresh for the slot.
C7_Original ==
    BeforeStartRaised =>
        /\ FactoryRanNotStarted
        /\ Retried => Times(hist[2].log, "factory", 1) = 1

\* C7: the exception propagates, the thread was made and started stays
\* false, and the next start() does not call the factory for the slot: it
\* calls before_start again with the instance made by the failed call.
C7_RetryReusesThread ==
    BeforeStartRaised =>
        /\ FactoryRanNotStarted
        /\ Retried =>
              /\ Times(hist[2].log, "factory", 1) = 0
              /\ hist[2].log # << >>
              /\ hist[2].log[1].ev = "before_start"
              /\ hist[2].log[1].thread = hist[1].after[1].thread

\* before_start raised in the first start() and the retry has started the
\* thread.
C7_Witness ==
    /\ BeforeStartRaised
    /\ Retried
    /\ IsCall(hist[2], "start", "returned")
    /\ hist[2].count = 1


\* Arguments bind has to reject: a factory that is not callable (None
\* included), or a callback that is neither None nor callable.
BadArgs(b) ==
    \/ ~callable(b.thread_factory)
    \/ \E f \in {"before_start", "after_start", "before_join", "after_join"} :
          b[f] # None /\ ~callable(b[f])

\* C8: bind called with a bad factory or a bad callback raises, and the step
\* that raises leaves the slots (their number, threads and flags) and the
\* lock as they were; the call never took the lock (the caller holds it only
\* when the call was made from a callback, which runs under the lock).
C8_BindRejectsUnchanged ==
    [][\A c \in Callers :
          (/\ pc[c] = "bind_check"
           /\ pc'[c] # "bind_check"
           /\ BadArgs(loc[c].builder)) =>
              /\ pc'[c] = loc[c].outer.pc
              /\ ret' = [op |-> "bind", outcome |-> "raised"]
              /\ slots' = slots
              /\ lock' = lock
              /\ loc[c].outer = Top => lock # c]_vars

\* The call that ended last is a bind that raised, on a bundle with a slot
\* that is running.
C8_Witness ==
    /\ ret = [op |-> "bind", outcome |-> "raised"]
    /\ \E i \in 1..Len(slots) : Running(slots[i])

\* Where a caller is inside a `with self._lock` block.
LockedPcs ==
    {"bind_append", "start_iter", "start_factory", "start_before",
     "start_thread", "start_after", "stop_iter", "stop_before", "stop_join",
     "stop_after"}

\* C9: whoever is inside the append of bind or the walk of start() or stop()
\* holds the lock, so at most one caller is; every thread instance made and
\* not yet joined is the thread of exactly one slot (no slot gets a second
\* thread made over the first), and start() is never called on an instance
\* that was started before.
C9_WalksExcludeEachOther ==
    /\ \A c \in Callers : pc[c] \in LockedPcs => lock = c
    /\ \A t \in 1..Len(threads) :
          /\ threads[t].again = 0
          /\ threads[t].joins = 0 =>
                Cardinality({i \in 1..Len(slots) : slots[i].thread = t}) = 1

\* One caller is about to start a thread while another waits for the lock
\* in start().
C9_Witness ==
    \E c, d \in Callers :
        /\ pc[c] = "start_thread"
        /\ pc[d] = "start_lock"

\* A start() raised and start() was called again.
RetriedStart ==
    /\ Len(hist) = 2
    /\ IsCall(hist[1], "start", "raised")
    /\ hist[2].op = "start"

\* The retry calls foreign code only for slots that were not running, and
\* when it returns it has started each of those.
RetrySkipsStarted ==
    RetriedStart =>
        /\ \A k \in 1..Len(hist[2].log) :
              ~Running(hist[2].before[hist[2].log[k].slot])
        /\ \A i \in 1..Len(hist[2].before) :
              Running(hist[2].before[i]) => hist[2].after[i] = hist[2].before[i]
        /\ hist[2].outcome = "returned" =>
              SlotsOf(Sel(hist[2].log, "start")) = Idle(hist[2].before)

\* C10 as stated: a retry after a start() that raised skips the started
\* slots, and no thread instance has start() called on it more than once.
C10_Original ==
    /\ RetrySkipsStarted
    /\ \A t \in 1..Len(threads) : threads[t].starts <= 1

\* C10: a retry after a start() that raised skips the started slots and acts
\* on the others only, and start() is never called on an instance that was
\* started before; an instance whose own start() raised stays in its slot
\* and the retry calls start() on it again.
C10_RetrySkipsStarted ==
    /\ RetrySkipsStarted
    /\ \A t \in 1..Len(threads) : threads[t].again = 0
    /\ \A k \in 1..Len(hist) :
          RaisedIn(hist[k], "start", "start") =>
              hist[k].after[Last(hist[k].log).slot].thread
                  = Last(hist[k].log).thread

\* Thread.start raised for the second of two slots, and the retry skipped
\* the first slot and started the second on the same instance.
C10_Witness ==
    /\ RetriedStart
    /\ RaisedIn(hist[1], "start", "start")
    /\ Last(hist[1].log).slot = 2
    /\ IsCall(hist[2], "start", "returned")
    /\ hist[2].count = 1
    /\ threads[Last(hist[1].log).thread].starts = 2

\* A caller whose callback called bind, start or stop on the bundle and now
\* waits at that call's `with self._lock` for the lock its own walk holds.
Reentered(c) ==
    /\ lock = c
    /\ pc[c] \in {"bind_lock", "start_lock", "stop_lock"}
    /\ loc[c].outer # Top

\* C11: the callbacks run with the bundle lock held by the calling thread, and
\* a callback that calls bind (with good arguments), start or stop on the
\* bundle never gets past the lock of that call: the caller stays there for
\* ever, its walk stays where the callback was called and the lock stays
\* held.
C11_CallbackReentryDeadlocks ==
    /\ [](\A c \in Callers :
            /\ loc[c].outer # Top => lock = c
            /\ loc[c].outer # Top => loc[c].outer.pc \in LockedPcs)
    /\ [][\A c \in Callers :
            Reentered(c) =>
                /\ pc'[c] = pc[c]
                /\ loc'[c] = loc[c]
                /\ lock' = c
                /\ slots' = slots
                /\ log' = log]_vars

\* An after_start callback called stop() and waits for the lock, with the
\* thread it was called for running.
C11_Witness ==
    \E c \in Callers :
        /\ Reentered(c)
        /\ pc[c] = "stop_lock"
        /\ loc[c].outer.pc = "start_after"
        /\ threads[loc[c].outer.loc.thread].state = "running"

\* C12: in every state, whatever calls were made and wherever the factory, a
\* callback, Thread.start or Thread.join raised, a slot whose started flag is
\* set has a thread.
C12_StartedHasThread ==
    \A i \in 1..Len(slots) : slots[i].started => slots[i].thread # NoThread

\* The call that ended last raised and left one slot running and another
\* with a thread that is not started.
C12_Witness ==
    /\ \A c \in Callers : pc[c] = "idle"
    /\ ret.outcome = "raised"
    /\ \E i, j \in 1..Len(slots) :
          /\ Running(slots[i])
          /\ slots[j].thread # NoThread
          /\ ~slots[j].started

\* The slots a call turned from not running into running.
Started(e) ==
    {i \in 1..Len(e.before) : ~Running(e.before[i]) /\ Running(e.after[i])}

\* C13: a start() that returns returns the number of threads it started,
\* which is the number of slots that were not running when it took the lock;
\* it calls nothing for the slots that were running and does not count them.
C13_StartCountsStarted ==
    \A k \in 1..Len(hist) :
        LET e == hist[k]
        IN IsCall(e, "start", "returned") =>
              /\ e.count = Len(Sel(e.log, "start"))
              /\ \A n \in 1..Len(e.log) : e.log[n].ok
              /\ e.count = Len(Idle(e.before))
              /\ e.count = Cardinality(Started(e))
              /\ \A n \in 1..Len(e.log) : ~Running(e.before[e.log[n].slot])

\* A start() returned 1 on a bundle of two slots of which one was running.
C13_Witness ==
    \E k \in 1..Len(hist) :
        /\ IsCall(hist[k], "start", "returned")
        /\ Len(hist[k].before) = 2
        /\ \E i \in 1..2 : Running(hist[k].before[i])
        /\ hist[k].count = 1

\* The slots a call turned from running into not running.
Stopped(e) ==
    {i \in 1..Len(e.before) : Running(e.before[i]) /\ ~Running(e.after[i])}

\* A slot as bind leaves it when it is given a factory and no callback.
Plain == [builder |-> _ThreadBuilder(Fn, None, None, None, None),
          thread |-> NoThread, started |-> FALSE]

\* start() returned and then stop() returned on a bundle of three slots bound
\* without callbacks, none of them started before.
ThreeStartedAndStopped ==
    /\ Len(hist) = 2
    /\ IsCall(hist[1], "start", "returned")
    /\ hist[1].before = <<Plain, Plain, Plain>>
    /\ IsCall(hist[2], "stop", "returned")

\* C14: a stop() that returns returns the number of threads it joined, which
\* is the number of slots that were running when it took the lock; it calls
\* nothing for the other slots.  With three slots bound without callbacks,
\* start() returns 3, the stop() after it returns 3 and joins the third slot,
\* then the second, then the first, and leaves a bundle of three slots, none
\* started.
C14_StopCountsJoined ==
    /\ \A k \in 1..Len(hist) :
          LET e == hist[k]
          IN IsCall(e, "stop", "returned") =>
                /\ e.count = Len(Sel(e.log, "join"))
                /\ \A n \in 1..Len(e.log) : e.log[n].ok
                /\ e.count = Len(Busy(e.before))
                /\ e.count = Cardinality(Stopped(e))
                /\ \A n \in 1..Len(e.log) : Running(e.before[e.log[n].slot])
    /\ ThreeStartedAndStopped =>
          /\ hist[1].count = 3
          /\ hist[2].count = 3
          /\ SlotsOf(hist[2].log) = <<3, 2, 1>>
          /\ \A n \in 1..3 : hist[2].log[n].ev = "join"
          /\ __len__ = 3
          /\ \A i \in 1..3 :
                ~hist[2].after[i].started /\ hist[2].after[i].thread = NoThread

\* The three slots were started and stopped, and the stop() returned 3.
C14_Witness ==
    /\ ThreeStartedAndStopped
    /\ hist[2].count = 3
    /\ __len__ = 3

\* The lock is held only by a caller inside a `with self._lock` block, be it
\* at a statement of the block or in a call made by a callback of the block.
HeldInside ==
    \A c \in Callers : lock = c => pc[c] \in LockedPcs \/ loc[c].outer # Top

\* start() raised out of the factory or the before_start of a slot.
RaisedEarly(e) ==
    RaisedIn(e, "start", "factory") \/ RaisedIn(e, "start", "before_start")

\* C15: when the factory or before_start of a slot raises in start(), that is
\* the last thing the call does: the slot is not started, nothing is called
\* for a later slot and the later slots are as they were, every slot before
\* it is running (the ones the call started keep their flag and thread), and
\* the lock is free once the call has ended.
C15_EarlyRaiseEndsStart ==
    /\ \A k \in 1..Len(hist) :
          LET e == hist[k]
              f == Last(e.log)
          IN RaisedEarly(e) =>
                /\ \A n \in 1..(Len(e.log) - 1) :
                      e.log[n].ok /\ e.log[n].slot <= f.slot
                /\ Times(e.log, "start", f.slot) = 0
                /\ ~e.after[f.slot].started
                /\ \A j \in (f.slot + 1)..Len(e.before) :
                      e.after[j] = e.before[j]
                /\ \A j \in 1..(f.slot - 1) : Running(e.after[j])
                /\ \A n \in 1..Len(e.log) :
                      e.log[n].ev = "start" =>
                          /\ e.after[e.log[n].slot].started
                          /\ e.after[e.log[n].slot].thread = e.log[n].thread
                /\ e.count = Len(Sel(e.log, "start"))
    /\ HeldInside

\* before_start raised for the second of three slots after the first was
\* started, the third was left alone, and the stop() called next returned
\* after joining the first.
C15_Witness ==
    /\ Len(hist) = 2
    /\ RaisedIn(hist[1], "start", "before_start")
    /\ Len(hist[1].before) = 3
    /\ Last(hist[1].log).slot = 2
    /\ hist[1].count = 1
    /\ IsCall(hist[2], "stop", "returned")
    /\ hist[2].count = 1
    /\ lock = None

\* A caller's bind returns: it leaves the `with` block of the append.
BindReturns(c) == pc[c] = "bind_append" /\ pc'[c] # "bind_append"

\* C16: len(bundle) is 0 on a new bundle, grows by one in the step in which
\* a bind returns and is left alone by every other step: a bind that raises,
\* every step of start() and stop() whether they return or raise, and the
\* threads finishing.  So it is the number of binds that returned, whichever
\* slots are running, and it never decreases.
C16_LenCountsBinds ==
    /\ [](hist = << >> => __len__ = 0)
    /\ [][IF \E c \in Callers : BindReturns(c)
          THEN /\ __len__' = __len__ + 1
               /\ ret' = [op |-> "bind", outcome |-> "returned"]
          ELSE __len__' = __len__]_vars

\* Two slots were started by a start() that returned, the stop() after it
\* raised, and len(bundle) is 2.
C16_Witness ==
    /\ Len(hist) = 2
    /\ IsCall(hist[1], "start", "returned")
    /\ hist[1].count = 2
    /\ IsCall(hist[2], "stop", "raised")
    /\ \E i \in 1..Len(slots) : Running(slots[i])
    /\ __len__ = 2

\* Slot i gets a thread in this step: it had none, or did not exist.
GetsThread(i) ==
    /\ slots'[i].thread # NoThread
    /\ i > Len(slots) \/ slots[i].thread = NoThread

\* C17: the step in which a bind returns appends one slot with the builder,
\* no thread and started = FALSE after the slots there were, which stay as
\* they are, in their order; no step of a bind makes a thread instance or
\* calls a callback; and a slot gets a thread only in start(), from its
\* factory.
C17_BindOnlyAppends ==
    /\ [][\A c \in Callers :
            BindReturns(c) =>
                slots' = Append(slots, [builder |-> loc[c].builder,
                                        thread |-> NoThread,
                                        started |-> FALSE])]_vars
    /\ [][\A c \in Callers :
            (pc[c] \in BindPcs /\ pc'[c] # pc[c]) =>
                threads' = threads /\ log' = log]_vars
    /\ [][\A i \in 1..Len(slots') :
            GetsThread(i) =>
                \E c \in Callers : pc[c] = "start_factory" /\ loc[c].i = i]_vars

\* A bind returned on a bundle whose one slot was running, and the start()
\* after it made and started the thread of the new slot only.
C17_Witness ==
    /\ Len(hist) = 2
    /\ IsCall(hist[1], "bind", "returned")
    /\ Len(hist[1].before) = 1
    /\ Running(hist[1].before[1])
    /\ IsCall(hist[2], "start", "returned")
    /\ SlotsOf(Sel(hist[2].log, "factory")) = <<2>>
    /\ hist[2].count = 1

\* No call of bind, start or stop is in progress.
Quiet == \A c \in Callers : pc[c] = "idle"

\* Thread instance t was started (its start() returned) and no join() of it
\* has returned.
Live(t) == threads[t].state # "new" /\ threads[t].joins = 0

\* C19: when no call is in progress, whatever raised in the calls before, a
\* slot's started flag is set exactly when the slot has a thread whose
\* start() returned and whose join() has not returned.  join() is called
\* only on an instance that was started and, once it has returned for an
\* instance, is not called on it again.
C19_FlagMatchesThread ==
    /\ Quiet =>
          \A i \in 1..Len(slots) :
              slots[i].started
                  <=> (slots[i].thread # NoThread /\ Live(slots[i].thread))
    /\ \A c \in Callers : pc[c] = "stop_join" => Live(loc[c].thread)
    /\ \A n \in 1..Len(log) :
          log[n].ev = "join" => threads[log[n].thread].state # "new"
    /\ \A t \in 1..Len(threads) : threads[t].joins <= 1

\* After a start() that returned, a stop() raised out of join(): no call is
\* in progress, one slot is still running and the thread of another was
\* joined.
C19_Witness ==
    /\ Quiet
    /\ Len(hist) = 2
    /\ IsCall(hist[1], "start", "returned")
    /\ RaisedIn(hist[2], "stop", "join")
    /\ \E i \in 1..Len(slots) : Running(slots[i])
    /\ \E t \in 1..Len(threads) : threads[t].joins = 1

\* stop() raised out of the before_join of a slot or out of its join().
RaisedLate(e) ==
    RaisedIn(e, "stop", "before_join") \/ RaisedIn(e, "stop", "join")

\* What bind left in a slot, with no thread and the flag clear.
Reset(s) == [builder |-> s.builder, thread |-> NoThread, started |-> FALSE]

\* A stop() raised out of before_join or join(), and stop() was called next.
RetriedStop ==
    /\ Len(hist) = 2
    /\ RaisedLate(hist[1])
    /\ hist[2].op = "stop"

\* C20: when the before_join of a slot or its join() raises in stop(), that
\* is the last thing the call does: the slot keeps its thread and its flag,
\* the slots bound before it are as they were and nothing was called for
\* them, the slots bound after it are not running (those the call joined are
\* reset), and the lock is free once the call has ended.  The stop() called
\* next begins with that slot, calling before_join (join() when the slot has
\* no before_join) on the same thread instance, and goes on from there
\* towards the first slot.
C20_LateRaiseEndsStop ==
    /\ \A k \in 1..Len(hist) :
          LET e == hist[k]
              f == Last(e.log)
          IN RaisedLate(e) =>
                /\ \A n \in 1..(Len(e.log) - 1) :
                      /\ e.log[n].ok
                      /\ e.log[n].slot >= f.slot
                      /\ e.log[n].slot = f.slot => e.log[n].ev = "before_join"
                /\ e.after[f.slot] = e.before[f.slot]
                /\ Running(e.after[f.slot])
                /\ e.after[f.slot].thread = f.thread
                /\ \A j \in 1..(f.slot - 1) : e.after[j] = e.before[j]
                /\ \A j \in (f.slot + 1)..Len(e.before) :
                      e.after[j] = IF Running(e.before[j])
                                   THEN Reset(e.before[j]) ELSE e.before[j]
                /\ e.count = Len(SelectSeq(e.log,
                                 LAMBDA x : x.ev = "join" /\ x.ok))
    /\ HeldInside
    /\ RetriedStop =>
          LET f == Last(hist[1].log)
              lg == hist[2].log
              first == IF hist[1].after[f.slot].builder.before_join = None
                       THEN "join" ELSE "before_join"
          IN /\ lg # << >>
             /\ lg[1].ev = first
             /\ lg[1].slot = f.slot
             /\ lg[1].thread = f.thread
             /\ \A n \in 1..Len(lg) : lg[n].slot <= f.slot
             /\ \A n \in 1..(Len(lg) - 1) : lg[n].slot >= lg[n + 1].slot

\* On a bundle of two running slots join() raised for the second slot, the
\* first one visited; the stop() called next called before_join for it again
\* and joined both slots.
C20_Witness ==
    /\ RetriedStop
    /\ RaisedIn(hist[1], "stop", "join")
    /\ Last(hist[1].log).slot = 2
    /\ Running(hist[1].before[1])
    /\ IsCall(hist[2], "stop", "returned")
    /\ hist[2].log[1].ev = "before_join"
    /\ Times(hist[1].log, "before_join", 2) = 1
    /\ hist[2].count = 2

StartPcs == {"start_iter", "start_factory", "start_before", "start_thread",
             "start_after"}

StopPcs == {"stop_iter", "stop_before", "stop_join", "stop_after"}

\* The caller is in the `with self._lock` block of start(), of stop().
Inside(c, pcs) == pc[c] \in pcs

\* The call of the caller has ended: it returned or raised.
Ended(c) == pc[c] = "idle"

\* The caller waits in join() for a thread whose body has not ended.
Blocked(c) ==
    /\ pc[c] = "stop_join"
    /\ threads[loc[c].thread].state = "running"

\* The step neither ends the body of the thread c waits for nor breaks off
\* the wait with an exception.
StillBlocked(c) ==
    /\ threads'[loc[c].thread].state = "running"
    /\ faults' = faults

\* C18: start() never waits for a thread's body: holding the lock it always
\* has a next statement to execute, and it ends whatever the threads do.
\* stop() gets past a join() only when the body of that thread has ended:
\* until then (unless the wait is broken off by an exception) the caller
\* stays in join() holding the lock and every caller waiting for the lock
\* stays where it is; when the bodies of the started threads all end, stop()
\* ends too.  The callbacks return or raise.
C18_StopWaitsStartDoesNot ==
    /\ [](\A c \in Callers : Inside(c, StartPcs) => ENABLED Runs(c))
    /\ \A c \in Callers : Inside(c, StartPcs) ~> Ended(c)
    /\ [][\A c \in Callers :
            (Blocked(c) /\ StillBlocked(c)) =>
                /\ pc'[c] = "stop_join"
                /\ lock' = c
                /\ \A d \in Callers \ {c} :
                      /\ pc[d] \in {"bind_lock", "start_lock", "stop_lock"}
                            => pc'[d] = pc[d]
                      /\ pc'[d] \notin LockedPcs]_vars
    /\ WF_vars(Finish) =>
          \A c \in Callers : Inside(c, StopPcs) ~> Ended(c)

\* One caller waits in join() for a thread that is running, and the other
\* has called bind and waits for the lock.
C18_Witness ==
    \E c, d \in Callers :
        /\ Blocked(c)
        /\ pc[d] = "bind_lock"
        /\ lock = c

====
